---- MODULE Spec2Model ----
(***************************************************************************)
(* The pixeldrain backend of rclone (backend/pixeldrain/pixeldrain.go):    *)
(* the fs.Fs / fs.Object facade over the remote node tree.                 *)
(*                                                                         *)
(* The facade methods are translated from pixeldrain.go.  The API client   *)
(* they call (stat, put, update, mkdir, delete, rename, read, userInfo,    *)
(* nodeToObject, pathToObject) is not part of the sources at hand; it is   *)
(* modelled from the design text: one remote call is one atomic change of  *)
(* the remote tree, and any call may fail with an unclassified transport   *)
(* error.                                                                  *)
(***************************************************************************)
EXTENDS Integers, Sequences, FiniteSets, TLC

VARIABLES
    tree,     \* the remote node tree: path -> stored entry
    obj,      \* the Object the caller holds (NoObj when it holds none)
    last,     \* the facade call that ran last: arguments, remote calls, result
    pre,      \* the remote tree as it was before that call
    preObj,   \* the caller-held Object as it was before that call
    quota     \* the last user-info response and the Usage About made of it

vars == <<tree, obj, last, pre, preObj, quota>>

\* ------------------------------------------------------------------ bounds

\* Modification times a caller may pass are 1..MaxTime.
MaxTime == 1
\* About: the used space reported is 0..MaxUsed.
MaxUsed == 10
\* About: a limited subscription's storage space is 0..MaxStorage.
MaxStorage == 8

\* ------------------------------------------------------------ remote paths

Root == <<>>
PathOrder == << <<"d">>, <<"d", "x">>, <<"e">> >>
AllPaths == {PathOrder[i] : i \in 1..Len(PathOrder)}
Contents == {"c1", "c2"}
\* The modification time the server gives a fresh upload.
UploadTime == 0
SourceTimes == 1..MaxTime

Parent(p) == SubSeq(p, 1, Len(p) - 1)
IsPrefix(a, b) == Len(a) <= Len(b) /\ SubSeq(b, 1, Len(a)) = a
\* q, found under a, seen under b instead
Rebase(q, a, b) == b \o SubSeq(q, Len(a) + 1, Len(q))

Absent == [type |-> "none", modified |-> 0, data |-> "-"]
DirStored == [type |-> "dir", modified |-> 0, data |-> "-"]
FileEntry(c, m) == [type |-> "file", modified |-> m, data |-> c]

EmptyTree == [p \in AllPaths |-> Absent]

EntryAt(t, p) == IF p \in AllPaths THEN t[p] ELSE Absent
TypeAt(t, p) == IF p = Root THEN "dir" ELSE IF p \in AllPaths THEN t[p].type ELSE "none"
Exists(t, p) == TypeAt(t, p) # "none"
HasChild(t, p) == \E q \in AllPaths : Parent(q) = p /\ Exists(t, q)

WellFormed(t) == \A p \in AllPaths : Exists(t, p) => TypeAt(t, Parent(p)) = "dir"

\* ------------------------------------------------------------- node model

FileSizeOf(c) == IF c = "c1" THEN 3 ELSE IF c = "c2" THEN 5 ELSE 0
FileTypeOf(c) == IF c = "c1" THEN "text/plain" ELSE IF c = "c2" THEN "image/png" ELSE ""
SHA256Of(c) == IF c = "c1" THEN "sha-c1" ELSE IF c = "c2" THEN "sha-c2" ELSE ""

\* FilesystemNode, as the API returns it for the entry e stored at path p
FilesystemNode(p, e) ==
    [Type |-> e.type, Path |-> p, Modified |-> e.modified,
     FileSize |-> FileSizeOf(e.data), FileType |-> FileTypeOf(e.data),
     SHA256Sum |-> SHA256Of(e.data)]

NodeAt(t, p) == IF p = Root THEN FilesystemNode(Root, DirStored) ELSE FilesystemNode(p, t[p])
NoNode == FilesystemNode(Root, Absent)

\* ----------------------------------------------------------------- errors

Err(id) == [id |-> id, wrap |-> ""]
\* fmt.Errorf("<msg>: %w", e): a new error value that is equal to no sentinel
Wrap(msg, e) == [id |-> e.id, wrap |-> msg]

nil == Err("nil")
errNotFound == Err("errNotFound")
errExists == Err("errExists")
errTransport == Err("errTransport")
ErrorDirNotFound == Err("fs.ErrorDirNotFound")
ErrorObjectNotFound == Err("fs.ErrorObjectNotFound")
ErrorIsDir == Err("fs.ErrorIsDir")
ErrorCantMove == Err("fs.ErrorCantMove")
ErrorDirExists == Err("fs.ErrorDirExists")

\* one remote call in the log of a facade call
Call(name, e) == [call |-> name, err |-> e]

\* ------------------------------------------------------------- API client

ChildrenOf(t, p) ==
    LET idx == SelectSeq([i \in 1..Len(PathOrder) |-> i],
                         LAMBDA i : Parent(PathOrder[i]) = p /\ Exists(t, PathOrder[i]))
    IN [k \in 1..Len(idx) |-> NodeAt(t, PathOrder[idx[k]])]

\* stat: the ancestor trace from the bucket root to the target, the target's
\* index in it, and the target's children when it is a directory
stat(t, p, fail) ==
    IF fail THEN [err |-> errTransport, Path |-> <<>>, BaseIndex |-> 0, Children |-> <<>>]
    ELSE IF ~Exists(t, p) THEN [err |-> errNotFound, Path |-> <<>>, BaseIndex |-> 0, Children |-> <<>>]
    ELSE [err |-> nil,
          Path |-> [i \in 1..(Len(p) + 1) |-> NodeAt(t, SubSeq(p, 1, i - 1))],
          BaseIndex |-> Len(p),
          Children |-> IF TypeAt(t, p) = "dir" THEN ChildrenOf(t, p) ELSE <<>>]

\* put: create or overwrite the file at p; the server stamps its own time
put(t, p, c, fail) ==
    IF fail THEN [err |-> errTransport, tree |-> t]
    ELSE IF p = Root \/ TypeAt(t, Parent(p)) # "dir" THEN [err |-> errNotFound, tree |-> t]
    ELSE IF TypeAt(t, p) = "dir" THEN [err |-> errExists, tree |-> t]
    ELSE [err |-> nil, tree |-> [t EXCEPT ![p] = FileEntry(c, UploadTime)]]

\* update: set the modification time of the node at p, answer the node
\* (the tree keeps the times of files only; a directory's is not tracked)
update(t, p, m, fail) ==
    IF fail THEN [err |-> errTransport, tree |-> t, node |-> NoNode]
    ELSE IF p = Root \/ ~Exists(t, p) THEN [err |-> errNotFound, tree |-> t, node |-> NoNode]
    ELSE LET t2 == IF t[p].type = "file" THEN [t EXCEPT ![p].modified = m] ELSE t
         IN [err |-> nil, tree |-> t2, node |-> [NodeAt(t2, p) EXCEPT !.Modified = m]]

mkdir(t, p, fail) ==
    IF fail THEN [err |-> errTransport, tree |-> t]
    ELSE IF p = Root THEN [err |-> errExists, tree |-> t]
    ELSE IF TypeAt(t, Parent(p)) # "dir" THEN [err |-> errNotFound, tree |-> t]
    ELSE IF Exists(t, p) THEN [err |-> errExists, tree |-> t]
    ELSE [err |-> nil, tree |-> [t EXCEPT ![p] = DirStored]]

\* delete: a non-recursive delete of a directory that has a child fails
delete(t, p, recursive, fail) ==
    IF fail THEN [err |-> errTransport, tree |-> t]
    ELSE IF p = Root \/ ~Exists(t, p) THEN [err |-> errNotFound, tree |-> t]
    ELSE IF ~recursive /\ HasChild(t, p) THEN [err |-> errTransport, tree |-> t]
    ELSE [err |-> nil,
          tree |-> [q \in AllPaths |-> IF IsPrefix(p, q) THEN Absent ELSE t[q]]]

\* rename: one call moves the node at a, and what is under it, to b
rename(t, a, b, fail) ==
    IF fail THEN [err |-> errTransport, tree |-> t]
    ELSE IF a = Root \/ ~Exists(t, a) THEN [err |-> errNotFound, tree |-> t]
    ELSE IF Exists(t, b) THEN [err |-> errExists, tree |-> t]
    ELSE IF TypeAt(t, Parent(b)) # "dir" THEN [err |-> errNotFound, tree |-> t]
    ELSE IF IsPrefix(a, b) THEN [err |-> errTransport, tree |-> t]
    ELSE [err |-> nil,
          tree |-> [q \in AllPaths |->
                      IF IsPrefix(b, q) THEN EntryAt(t, Rebase(q, b, a))
                      ELSE IF IsPrefix(a, q) THEN Absent
                      ELSE t[q]]]

\* read: open the content at p
read(t, p, fail) ==
    IF fail THEN errTransport
    ELSE IF TypeAt(t, p) # "file" THEN errNotFound
    ELSE nil

\* userInfo: the account's used space and its subscription's storage space
userInfo(used, space, fail) ==
    IF fail THEN [err |-> errTransport, StorageSpaceUsed |-> 0, StorageSpace |-> 0]
    ELSE [err |-> nil, StorageSpaceUsed |-> used, StorageSpace |-> space]

\* --------------------------------------------------------------- Object

Object(b, tr, ch) == [fs |-> "f", base |-> b, path |-> tr, children |-> ch]
NoObj == [fs |-> "", base |-> NoNode, path |-> <<>>, children |-> <<>>]

nodeToObject(node) == Object(node, <<>>, <<>>)
\* base points at the target's element of the path trace
pathToObject(fsp) == Object(fsp.Path[fsp.BaseIndex + 1], fsp.Path, fsp.Children)

\* o.base is a pointer: a write through it is seen in the path trace it points
\* into (its last element) as well.
SetBasePath(o, p) ==
    [o EXCEPT !.base.Path = p,
              !.path = IF o.path = <<>> THEN <<>>
                       ELSE [o.path EXCEPT ![Len(o.path)].Path = p]]
SetBaseModified(o, m) ==
    [o EXCEPT !.base.Modified = m,
              !.path = IF o.path = <<>> THEN <<>>
                       ELSE [o.path EXCEPT ![Len(o.path)].Modified = m]]
\* a directory entry and an object entry of a listing
nodeToDirectory(node) == [entry |-> "Directory", base |-> node]
objectEntry(o) == [entry |-> "Object", base |-> o.base]

\* ---------------------------------------------------------------- facade
\* Each method is an operator from the remote tree t (and the receiver o) to
\* its result: the error and value returned, the remote calls made, the tree
\* and the receiver afterwards.  failAt = i makes the i-th remote call of the
\* method fail in transport; 0 lets every call through.

Result(e, r, cs, t, o, es) ==
    [err |-> e, ret |-> r, calls |-> cs, tree |-> t, obj |-> o, entries |-> es]


\* List handing the internal errNotFound on
List_NoMap(t, o, dir, failAt) ==
    LET fsp == stat(t, dir, failAt = 1)
        cs == <<Call("stat", fsp.err)>>
    IN IF fsp.err # nil THEN Result(fsp.err, NoObj, cs, t, o, <<>>)
       ELSE Result(nil, NoObj, cs, t, o,
                   [i \in 1..Len(fsp.Children) |->
                      IF fsp.Children[i].Type = "dir"
                      THEN nodeToDirectory(fsp.Children[i])
                      ELSE objectEntry(nodeToObject(fsp.Children[i]))])

List(t, o, dir, failAt) ==
    LET fsp == stat(t, dir, failAt = 1)
        cs == <<Call("stat", fsp.err)>>
    IN IF fsp.err = errNotFound THEN Result(ErrorDirNotFound, NoObj, cs, t, o, <<>>)
       ELSE IF fsp.err # nil THEN Result(fsp.err, NoObj, cs, t, o, <<>>)
       ELSE Result(nil, NoObj, cs, t, o,
                   [i \in 1..Len(fsp.Children) |->
                      IF fsp.Children[i].Type = "dir"
                      THEN nodeToDirectory(fsp.Children[i])
                      ELSE objectEntry(nodeToObject(fsp.Children[i]))])


\* NewObject without the test for a directory
NewObject_NoDirCheck(t, o, remote, failAt) ==
    LET fsp == stat(t, remote, failAt = 1)
        cs == <<Call("stat", fsp.err)>>
    IN IF fsp.err = errNotFound THEN Result(ErrorObjectNotFound, NoObj, cs, t, o, <<>>)
       ELSE IF fsp.err # nil THEN Result(fsp.err, NoObj, cs, t, o, <<>>)
       ELSE Result(nil, pathToObject(fsp), cs, t, o, <<>>)

NewObject(t, o, remote, failAt) ==
    LET fsp == stat(t, remote, failAt = 1)
        cs == <<Call("stat", fsp.err)>>
    IN IF fsp.err = errNotFound THEN Result(ErrorObjectNotFound, NoObj, cs, t, o, <<>>)
       ELSE IF fsp.err # nil THEN Result(fsp.err, NoObj, cs, t, o, <<>>)
       ELSE IF fsp.Path[fsp.BaseIndex + 1].Type = "dir"
            THEN Result(ErrorIsDir, NoObj, cs, t, o, <<>>)
       ELSE Result(nil, pathToObject(fsp), cs, t, o, <<>>)


\* Put answering the node of the upload instead of the metadata update's
Put_UploadNode(t, o, remote, c, m, failAt) ==
    LET up == put(t, remote, c, failAt = 1)
        md == update(up.tree, remote, m, failAt = 2)
    IN IF up.err # nil
       THEN Result(Wrap("failed to put object", up.err), NoObj,
                   <<Call("put", up.err)>>, up.tree, o, <<>>)
       ELSE IF md.err # nil
       THEN Result(md.err, NoObj, <<Call("put", up.err), Call("update", md.err)>>,
                   md.tree, o, <<>>)
       ELSE Result(nil, nodeToObject(NodeAt(up.tree, remote)),
                   <<Call("put", up.err), Call("update", md.err)>>, md.tree, o, <<>>)

Put(t, o, remote, c, m, failAt) ==
    LET up == put(t, remote, c, failAt = 1)
        md == update(up.tree, remote, m, failAt = 2)
    IN IF up.err # nil
       THEN Result(Wrap("failed to put object", up.err), NoObj,
                   <<Call("put", up.err)>>, up.tree, o, <<>>)
       ELSE IF md.err # nil
       THEN Result(md.err, NoObj, <<Call("put", up.err), Call("update", md.err)>>,
                   md.tree, o, <<>>)
       ELSE Result(nil, nodeToObject(md.node),
                   <<Call("put", up.err), Call("update", md.err)>>, md.tree, o, <<>>)


\* Mkdir reporting the remote's already-exists answer as an error
Mkdir_ExistsIsError(t, o, dir, failAt) ==
    LET r == mkdir(t, dir, failAt = 1)
        cs == <<Call("mkdir", r.err)>>
    IN IF r.err = errNotFound THEN Result(ErrorDirNotFound, NoObj, cs, r.tree, o, <<>>)
       ELSE Result(r.err, NoObj, cs, r.tree, o, <<>>)

Mkdir(t, o, dir, failAt) ==
    LET r == mkdir(t, dir, failAt = 1)
        cs == <<Call("mkdir", r.err)>>
    IN IF r.err = errNotFound THEN Result(ErrorDirNotFound, NoObj, cs, r.tree, o, <<>>)
       ELSE IF r.err = errExists THEN Result(nil, NoObj, cs, r.tree, o, <<>>)
       ELSE Result(r.err, NoObj, cs, r.tree, o, <<>>)


\* Rmdir asking for a recursive delete
Rmdir_Recursive(t, o, dir, failAt) ==
    LET r == delete(t, dir, TRUE, failAt = 1)
        cs == <<Call("delete(recursive=true)", r.err)>>
    IN IF r.err = errNotFound THEN Result(ErrorDirNotFound, NoObj, cs, r.tree, o, <<>>)
       ELSE Result(r.err, NoObj, cs, r.tree, o, <<>>)

Rmdir(t, o, dir, failAt) ==
    LET r == delete(t, dir, FALSE, failAt = 1)
        cs == <<Call("delete(recursive=false)", r.err)>>
    IN IF r.err = errNotFound THEN Result(ErrorDirNotFound, NoObj, cs, r.tree, o, <<>>)
       ELSE Result(r.err, NoObj, cs, r.tree, o, <<>>)

Purge(t, o, dir, failAt) ==
    LET r == delete(t, dir, TRUE, failAt = 1)
        cs == <<Call("delete(recursive=true)", r.err)>>
    IN IF r.err = errNotFound THEN Result(ErrorDirNotFound, NoObj, cs, r.tree, o, <<>>)
       ELSE Result(r.err, NoObj, cs, r.tree, o, <<>>)


\* Move leaving the source Object's path as it was
Move_PathNotSet(t, o, src, remote, failAt) ==
    IF src # "Object" THEN Result(ErrorCantMove, NoObj, <<>>, t, o, <<>>)
    ELSE LET r == rename(t, o.base.Path, remote, failAt = 1)
             cs == <<Call("rename", r.err)>>
         IN IF r.err = errNotFound THEN Result(ErrorCantMove, NoObj, cs, r.tree, o, <<>>)
            ELSE IF r.err # nil
            THEN Result(Wrap("failed to rename file", r.err), NoObj, cs, r.tree, o, <<>>)
            ELSE Result(nil, o, cs, r.tree, o, <<>>)

\* src is "Object" when the source is a *Object (the one the caller holds),
\* anything else when it is an object of another backend type.
Move(t, o, src, remote, failAt) ==
    IF src # "Object" THEN Result(ErrorCantMove, NoObj, <<>>, t, o, <<>>)
    ELSE LET r == rename(t, o.base.Path, remote, failAt = 1)
             cs == <<Call("rename", r.err)>>
             moved == SetBasePath(o, remote)
         IN IF r.err = errNotFound THEN Result(ErrorCantMove, NoObj, cs, r.tree, o, <<>>)
            ELSE IF r.err # nil
            THEN Result(Wrap("failed to rename file", r.err), NoObj, cs, r.tree, o, <<>>)
            ELSE Result(nil, moved, cs, r.tree, moved, <<>>)


\* DirMove without the mapping of already-exists
DirMove_ExistsNotMapped(t, o, src, srcRemote, dstRemote, failAt) ==
    LET r == rename(t, srcRemote, dstRemote, failAt = 1)
        cs == <<Call("rename", r.err)>>
    IN IF r.err = errNotFound THEN Result(ErrorDirNotFound, NoObj, cs, r.tree, o, <<>>)
       ELSE Result(r.err, NoObj, cs, r.tree, o, <<>>)

\* src is the source Fs: "f" for this adapter, anything else for another one.
DirMove(t, o, src, srcRemote, dstRemote, failAt) ==
    LET r == rename(t, srcRemote, dstRemote, failAt = 1)
        cs == <<Call("rename", r.err)>>
    IN IF r.err = errNotFound THEN Result(ErrorDirNotFound, NoObj, cs, r.tree, o, <<>>)
       ELSE IF r.err = errExists THEN Result(ErrorDirExists, NoObj, cs, r.tree, o, <<>>)
       ELSE Result(r.err, NoObj, cs, r.tree, o, <<>>)

SetModTime(t, o, m, failAt) ==
    LET r == update(t, o.base.Path, m, failAt = 1)
        cs == <<Call("update", r.err)>>
    IN IF r.err = nil
       THEN Result(r.err, NoObj, cs, r.tree, SetBaseModified(o, m), <<>>)
       ELSE Result(r.err, NoObj, cs, r.tree, o, <<>>)

Open(t, o, failAt) ==
    LET e == read(t, o.base.Path, failAt = 1)
    IN Result(e, NoObj, <<Call("read", e)>>, t, o, <<>>)


\* Update taking over the new base only, keeping its old path trace and children
Update_BaseOnly(t, o, remote, c, m, failAt) ==
    LET r == Put(t, o, remote, c, m, failAt)
    IN IF r.err = nil
       THEN Result(r.err, r.ret, r.calls, r.tree, [o EXCEPT !.base = r.ret.base], <<>>)
       ELSE Result(r.err, r.ret, r.calls, r.tree, o, <<>>)

Update(t, o, remote, c, m, failAt) ==
    LET r == Put(t, o, remote, c, m, failAt)
    IN IF r.err = nil THEN Result(r.err, r.ret, r.calls, r.tree, r.ret, <<>>)
       ELSE Result(r.err, r.ret, r.calls, r.tree, o, <<>>)

Remove(t, o, failAt) ==
    LET r == delete(t, o.base.Path, FALSE, failAt = 1)
    IN Result(r.err, NoObj, <<Call("delete(recursive=false)", r.err)>>, r.tree, o, <<>>)

\* Byte counts are held in units of 10^12 bytes, so that the 1e15 of About is
\* a number that fits 32-bit integers.
PetaByte == 1000

\* fs.Usage, from a user-info response
About(used, space, failAt) ==
    LET user == userInfo(used, space, failAt = 1)
        StorageSpace == IF user.StorageSpace = -1 THEN PetaByte ELSE user.StorageSpace
    IN IF user.err # nil
       THEN [err |-> Wrap("failed to read user info", user.err),
             Used |-> 0, Total |-> 0, Free |-> 0]
       ELSE [err |-> nil,
             Used |-> user.StorageSpaceUsed,
             Total |-> StorageSpace,
             Free |-> user.StorageSpaceUsed - StorageSpace]

\* ---------------------------------------------------------------- actions
\* One action per facade method: the caller picks the arguments, the remote
\* picks whether a call fails in transport, and the method runs as a whole.

NoArg == <<"-">>

Record(op, remote, dst, src, c, m, failAt, r) ==
    [op |-> op, remote |-> remote, dst |-> dst, src |-> src, data |-> c,
     modTime |-> m, failAt |-> failAt,
     calls |-> r.calls, err |-> r.err, ret |-> r.ret, entries |-> r.entries]

\* The facade call ran with result r; keep tells whether the caller takes the
\* returned Object as the one it holds.
Ran(rec, r, keep) ==
    /\ last.op = ""
    /\ last' = rec
    /\ pre' = tree
    /\ preObj' = obj
    /\ tree' = r.tree
    /\ obj' = IF keep /\ r.err = nil THEN r.ret ELSE r.obj
    /\ UNCHANGED quota

\* A rename stays inside the modelled paths.
RenameFits(t, a, b) ==
    \A q \in AllPaths : IsPrefix(a, q) /\ Exists(t, q) => Rebase(q, a, b) \in AllPaths

CallList ==
    \E dir \in AllPaths \cup {Root}, failAt \in 0..1 :
        LET r == List(tree, obj, dir, failAt)
        IN Ran(Record("List", dir, NoArg, "", "-", 0, failAt, r), r, FALSE)

CallNewObject ==
    \E remote \in AllPaths, failAt \in 0..1 :
        LET r == NewObject(tree, obj, remote, failAt)
        IN Ran(Record("NewObject", remote, NoArg, "", "-", 0, failAt, r), r, TRUE)

CallPut ==
    \E remote \in AllPaths, c \in Contents, m \in SourceTimes, failAt \in 0..2 :
        LET r == Put(tree, obj, remote, c, m, failAt)
        IN Ran(Record("Put", remote, NoArg, "", c, m, failAt, r), r, TRUE)

CallMkdir ==
    \E dir \in AllPaths, failAt \in 0..1 :
        LET r == Mkdir(tree, obj, dir, failAt)
        IN Ran(Record("Mkdir", dir, NoArg, "", "-", 0, failAt, r), r, FALSE)

CallRmdir ==
    \E dir \in AllPaths, failAt \in 0..1 :
        LET r == Rmdir(tree, obj, dir, failAt)
        IN Ran(Record("Rmdir", dir, NoArg, "", "-", 0, failAt, r), r, FALSE)

CallPurge ==
    \E dir \in AllPaths, failAt \in 0..1 :
        LET r == Purge(tree, obj, dir, failAt)
        IN Ran(Record("Purge", dir, NoArg, "", "-", 0, failAt, r), r, FALSE)

CallMove ==
    \E src \in {"Object", "foreign"}, remote \in AllPaths, failAt \in 0..1 :
        /\ src = "Object" => obj # NoObj /\ RenameFits(tree, obj.base.Path, remote)
        /\ LET r == Move(tree, obj, src, remote, failAt)
           IN Ran(Record("Move", IF src = "Object" THEN obj.base.Path ELSE NoArg,
                         remote, src, "-", 0, failAt, r), r, FALSE)

CallDirMove ==
    \E src \in {"f", "other"}, srcRemote \in AllPaths, dstRemote \in AllPaths,
       failAt \in {0} :
        /\ RenameFits(tree, srcRemote, dstRemote)
        /\ LET r == DirMove(tree, obj, src, srcRemote, dstRemote, failAt)
           IN Ran(Record("DirMove", srcRemote, dstRemote, src, "-", 0, failAt, r), r, FALSE)

CallSetModTime ==
    \E m \in SourceTimes, failAt \in 0..1 :
        /\ obj # NoObj
        /\ LET r == SetModTime(tree, obj, m, failAt)
           IN Ran(Record("SetModTime", obj.base.Path, NoArg, "", "-", m, failAt, r), r, FALSE)

CallOpen ==
    \E failAt \in 0..1 :
        /\ obj # NoObj
        /\ LET r == Open(tree, obj, failAt)
           IN Ran(Record("Open", obj.base.Path, NoArg, "", "-", 0, failAt, r), r, FALSE)

CallUpdate ==
    \E remote \in AllPaths, c \in Contents, m \in SourceTimes, failAt \in 0..2 :
        /\ obj # NoObj
        /\ LET r == Update(tree, obj, remote, c, m, failAt)
           IN Ran(Record("Update", remote, NoArg, "", c, m, failAt, r), r, FALSE)

CallRemove ==
    \E failAt \in 0..1 :
        /\ obj # NoObj
        /\ LET r == Remove(tree, obj, failAt)
           IN Ran(Record("Remove", obj.base.Path, NoArg, "", "-", 0, failAt, r), r, FALSE)

\* The caller has looked at the result and goes on to its next call.
Return ==
    /\ last.op # ""
    /\ last' = [op |-> "", remote |-> <<"-">>, dst |-> <<"-">>, src |-> "", data |-> "-",
                modTime |-> 0, failAt |-> 0, calls |-> <<>>, err |-> nil, ret |-> NoObj,
                entries |-> <<>>]
    /\ pre' = EmptyTree
    /\ preObj' = NoObj
    /\ UNCHANGED <<tree, obj, quota>>

CallAbout ==
    \E used \in 0..MaxUsed, space \in (0..MaxStorage) \cup {-1, PetaByte}, failAt \in 0..1 :
        /\ quota' = [used |-> used, space |-> space, failAt |-> failAt,
                     usage |-> About(used, space, failAt), asked |-> TRUE]
        /\ UNCHANGED <<tree, obj, last, pre, preObj>>

NoCall ==
    [op |-> "", remote |-> NoArg, dst |-> NoArg, src |-> "", data |-> "-",
     modTime |-> 0, failAt |-> 0, calls |-> <<>>, err |-> nil, ret |-> NoObj,
     entries |-> <<>>]

NoQuota ==
    [used |-> 0, space |-> 0, failAt |-> 0, asked |-> FALSE,
     usage |-> [err |-> nil, Used |-> 0, Total |-> 0, Free |-> 0]]

\* After NewFs: an empty bucket, no Object handed out, nothing asked yet.
Init ==
    /\ tree = EmptyTree
    /\ obj = NoObj
    /\ last = NoCall
    /\ pre = EmptyTree
    /\ preObj = NoObj
    /\ quota = NoQuota

Next ==
    \/ CallList
    \/ CallNewObject
    \/ CallPut
    \/ CallMkdir
    \/ CallRmdir
    \/ CallPurge
    \/ CallMove
    \/ CallDirMove
    \/ CallSetModTime
    \/ CallOpen
    \/ CallUpdate
    \/ CallRemove
    \/ Return

Spec == Init /\ [][Next]_vars

\* The quota query alone: it reads no remote tree and changes none.
NextAbout == CallAbout

SpecAbout == Init /\ [][NextAbout]_vars

TypeOK ==
    /\ WellFormed(tree)
    /\ WellFormed(pre)
    /\ \A p \in AllPaths : tree[p].type = "file" => tree[p].data \in Contents

\* ------------------------------------------------------------- properties

DirOps == {"List", "Mkdir", "Rmdir", "Purge", "DirMove"}
ObjectOps == {"NewObject", "Put", "Update", "Remove", "SetModTime", "Open"}
StatIs(t, p) == stat(t, p, FALSE).err

\* C1: NewObject(p) ends in exactly one of three ways decided by stat(p):
\* ObjectNotFound when stat reports NotFound, IsDir (and no Object) when the
\* target node is a directory, otherwise an Object wrapping the target node;
\* any other stat error is returned unchanged with no Object.
C1_NewObjectOutcome ==
    last.op = "NewObject" =>
        LET p == last.remote
            st == last.calls[1]
        IN /\ Len(last.calls) = 1 /\ st.call = "stat"
           /\ tree = pre
           /\ st.err = errNotFound <=> (last.failAt = 0 /\ pre[p].type = "none")
           /\ st.err = errNotFound =>
                  last.err = ErrorObjectNotFound /\ last.ret = NoObj
           /\ st.err \notin {nil, errNotFound} =>
                  last.err = st.err /\ last.ret = NoObj
           /\ st.err = nil /\ pre[p].type = "dir" =>
                  last.err = ErrorIsDir /\ last.ret = NoObj
           /\ st.err = nil /\ pre[p].type = "file" =>
                  /\ last.err = nil
                  /\ last.ret # NoObj
                  /\ last.ret.base = NodeAt(pre, p)
                  /\ last.ret.base.Type = "file"

\* C1 witness: NewObject ran on a path that holds a directory.
C1_Witness ==
    /\ last.op = "NewObject"
    /\ pre[last.remote].type = "dir"
    /\ last.err = ErrorIsDir

\* C2: Put is upload, then metadata update: the update is issued only after a
\* successful upload; an upload that succeeded stays on the remote when the
\* update fails, and Put then returns an error and no Object; when both
\* succeed the Object is built from the update's answer and carries the
\* source's modification time.
C2_PutTwoPhase ==
    last.op = "Put" =>
        LET cs == last.calls
            p == last.remote
        IN /\ Len(cs) \in 1..2 /\ cs[1].call = "put"
           /\ \A i \in 1..Len(cs) :
                  cs[i].call = "update" => i = 2 /\ cs[1].err = nil
           /\ cs[1].err # nil =>
                  Len(cs) = 1 /\ last.err # nil /\ last.ret = NoObj /\ tree = pre
           /\ cs[1].err = nil => Len(cs) = 2 /\ cs[2].call = "update"
           /\ Len(cs) = 2 /\ cs[2].err # nil =>
                  /\ last.err # nil
                  /\ last.ret = NoObj
                  /\ tree[p].type = "file"
                  /\ tree[p].data = last.data
           /\ Len(cs) = 2 /\ cs[2].err = nil =>
                  /\ last.err = nil
                  /\ last.ret.base.Modified = last.modTime
                  /\ last.ret.base = NodeAt(tree, p)
                  /\ tree[p] = FileEntry(last.data, last.modTime)

\* C2 witness: the upload went through and the metadata update failed.
C2_Witness ==
    /\ last.op = "Put"
    /\ Len(last.calls) = 2
    /\ last.calls[1].err = nil
    /\ last.calls[2].err # nil
    /\ pre[last.remote].type = "none"
    /\ tree[last.remote].type = "file"

\* C3: after a successful Move of the Object at a to b (a # b), a is not found,
\* b holds the node that was at a (same hash, size, mime type), the Object
\* returned is the caller's handle with Remote() = b and its size, hash,
\* modification time and mime type unchanged; the rename is one remote call,
\* so a failed Move leaves the tree as it was.
C3_MoveRenames ==
    last.op = "Move" /\ last.src = "Object" =>
        LET a == last.remote
            b == last.dst
        IN /\ a = preObj.base.Path
           /\ Len(last.calls) = 1 /\ last.calls[1].call = "rename"
           /\ last.err # nil => tree = pre
           /\ last.err = nil =>
                  /\ a # b
                  /\ StatIs(tree, a) = errNotFound
                  /\ StatIs(tree, b) = nil
                  /\ tree[b] = pre[a]
                  /\ NodeAt(tree, b).SHA256Sum = NodeAt(pre, a).SHA256Sum
                  /\ NodeAt(tree, b).FileSize = NodeAt(pre, a).FileSize
                  /\ NodeAt(tree, b).FileType = NodeAt(pre, a).FileType
                  /\ \A q \in AllPaths \ {a, b} :
                         ~IsPrefix(a, q) /\ ~IsPrefix(b, q) => tree[q] = pre[q]
                  /\ last.ret = obj
                  /\ obj.base.Path = b
                  /\ obj.base.FileSize = preObj.base.FileSize
                  /\ obj.base.SHA256Sum = preObj.base.SHA256Sum
                  /\ obj.base.Modified = preObj.base.Modified
                  /\ obj.base.FileType = preObj.base.FileType

\* C3 witness: a file was moved from one path to another.
C3_Witness ==
    /\ last.op = "Move"
    /\ last.err = nil
    /\ pre[last.remote].type = "file"
    /\ tree[last.dst].type = "file"
    /\ last.remote # last.dst

\* C4: a rename that reports NotFound makes Move return CantMove and DirMove
\* DirNotFound; one that reports already-exists makes DirMove return DirExists
\* and Move a generic failure; any other rename error is a failure of both;
\* a Move that fails leaves the caller's Object with its old path.
C4_RenameErrors ==
    /\ last.op = "Move" /\ last.src = "Object" =>
           LET e == last.calls[1].err
           IN /\ e = errNotFound => last.err = ErrorCantMove
              /\ e = errExists =>
                     /\ last.err = Wrap("failed to rename file", errExists)
                     /\ last.err \notin {nil, ErrorCantMove, ErrorDirExists, errExists}
              /\ e \notin {nil, errNotFound, errExists} =>
                     last.err \notin {nil, ErrorCantMove}
              /\ e = nil <=> last.err = nil
              /\ last.err # nil =>
                     /\ last.ret = NoObj
                     /\ obj = preObj
                     /\ obj.base.Path = last.remote
    /\ last.op = "DirMove" =>
           LET e == last.calls[1].err
           IN /\ e = errNotFound => last.err = ErrorDirNotFound
              /\ e = errExists => last.err = ErrorDirExists
              /\ e \notin {nil, errNotFound, errExists} => last.err = e
              /\ e = nil <=> last.err = nil

\* C4 witness: Move found its destination taken.
C4_Witness ==
    /\ last.op = "Move"
    /\ last.src = "Object"
    /\ last.calls[1].err = errExists
    /\ pre[last.remote].type = "file"

\* C5: Move and DirMove, given a source of another backend instance, return
\* CantMove at once and make no remote call.
C5_CrossAdapterRejected ==
    \/ last.op = "Move" /\ last.src # "Object"
    \/ last.op = "DirMove" /\ last.src # "f"
    => /\ last.err = ErrorCantMove
       /\ last.calls = <<>>
       /\ tree = pre

\* C6 as stated: for every path p whose parent exists, Mkdir(p) twice in
\* succession succeeds both times and leaves exactly one directory node at p;
\* without the parent Mkdir returns DirNotFound and creates nothing.
C6_MkdirTwiceAnyPath ==
    last.op = "Mkdir" /\ last.failAt = 0 =>
        LET p == last.remote
            second == Mkdir(tree, obj, p, 0)
        IN /\ TypeAt(pre, Parent(p)) = "dir" =>
                  /\ last.err = nil
                  /\ second.err = nil
                  /\ second.tree[p].type = "dir"
           /\ TypeAt(pre, Parent(p)) # "dir" =>
                  last.err = ErrorDirNotFound /\ tree = pre

\* C6 as amended: the same for every path p whose parent directory exists and
\* that holds no file; the remote's already-exists answer is turned into
\* success and changes nothing, whatever node is at p.
C6_MkdirIdempotent ==
    last.op = "Mkdir" /\ last.failAt = 0 =>
        LET p == last.remote
            second == Mkdir(tree, obj, p, 0)
        IN /\ TypeAt(pre, Parent(p)) = "dir" /\ pre[p].type # "file" =>
                  /\ last.err = nil
                  /\ tree[p].type = "dir"
                  /\ \A q \in AllPaths \ {p} : tree[q] = pre[q]
                  /\ second.err = nil
                  /\ second.calls[1].err = errExists
                  /\ second.tree = tree
                  /\ second.tree[p].type = "dir"
           /\ last.calls[1].err = errExists => last.err = nil /\ tree = pre
           /\ TypeAt(pre, Parent(p)) # "dir" =>
                  last.err = ErrorDirNotFound /\ tree = pre

\* C6 witness: Mkdir ran on a directory that was there already.
C6_Witness ==
    /\ last.op = "Mkdir"
    /\ pre[last.remote].type = "dir"
    /\ last.calls[1].err = errExists
    /\ last.err = nil

\* C7: Rmdir deletes non-recursively and Purge recursively: Rmdir of a
\* directory with a child fails with an error other than DirNotFound and
\* removes nothing; Purge of it removes the directory and all under it in one
\* remote call; both return DirNotFound when the directory does not exist.
C7_RmdirPurge ==
    /\ last.op = "Rmdir" =>
           /\ Len(last.calls) = 1
           /\ last.calls[1].call = "delete(recursive=false)"
           /\ last.failAt = 0 /\ pre[last.remote].type = "dir" /\ HasChild(pre, last.remote) =>
                  last.err \notin {nil, ErrorDirNotFound} /\ tree = pre
    /\ last.op = "Purge" =>
           /\ Len(last.calls) = 1
           /\ last.calls[1].call = "delete(recursive=true)"
           /\ last.failAt = 0 /\ pre[last.remote].type = "dir" =>
                  /\ last.err = nil
                  /\ \A q \in AllPaths :
                         IF IsPrefix(last.remote, q)
                         THEN StatIs(tree, q) = errNotFound
                         ELSE tree[q] = pre[q]
    /\ last.op \in {"Rmdir", "Purge"} /\ last.failAt = 0 /\ ~Exists(pre, last.remote) =>
           last.err = ErrorDirNotFound /\ tree = pre

\* C7 witness: Rmdir ran on a directory that has a child.
C7_Witness ==
    /\ last.op = "Rmdir"
    /\ last.failAt = 0
    /\ pre[last.remote].type = "dir"
    /\ HasChild(pre, last.remote)
    /\ last.err # nil

\* C8 as stated: Update deletes the old identity on the remote, then Puts; a
\* successful Update leaves the calling Object equal to the Object Put
\* returned, a failed one leaves it as it was.
C8_UpdateDeletesFirst ==
    last.op = "Update" =>
        /\ last.calls # <<>>
        /\ last.calls[1].call \in {"delete(recursive=false)", "delete(recursive=true)"}
        /\ last.err = nil => obj = last.ret
        /\ last.err # nil => obj = preObj

\* C8 as amended: Update makes no delete call, it is Put at the source's
\* remote path (upload, then metadata update); a successful Update leaves the
\* calling Object's whole state (base, path trace, children) equal to that of
\* the Object Put returned, a failed one leaves it as it was.
C8_UpdateAdopts ==
    last.op = "Update" =>
        /\ last.calls # <<>>
        /\ last.calls[1].call = "put"
        /\ \A i \in 1..Len(last.calls) : last.calls[i].call \in {"put", "update"}
        /\ last.err = nil =>
               /\ obj = last.ret
               /\ obj.base = NodeAt(tree, last.remote)
               /\ obj.path = last.ret.path
               /\ obj.children = last.ret.children
        /\ last.err # nil => obj = preObj /\ last.ret = NoObj
        /\ last.remote # preObj.base.Path => tree[preObj.base.Path] = pre[preObj.base.Path]

\* C8 witness: an Object that carried a path trace was updated.
C8_Witness ==
    /\ last.op = "Update"
    /\ last.err = nil
    /\ preObj.path # <<>>
    /\ obj # preObj

\* C9 as stated: a NotFound of a remote call never reaches the caller
\* unmapped: directory operations return DirNotFound, object operations
\* ObjectNotFound, Move CantMove.
C9_NotFoundAlwaysMapped ==
    (\E i \in 1..Len(last.calls) : last.calls[i].err = errNotFound) =>
        /\ last.op \in DirOps => last.err = ErrorDirNotFound
        /\ last.op \in ObjectOps => last.err = ErrorObjectNotFound
        /\ last.op = "Move" => last.err = ErrorCantMove

\* C9 as amended: on a NotFound of a remote call the directory operations
\* return DirNotFound, NewObject returns ObjectNotFound and Move CantMove;
\* Put and Update wrap the upload's NotFound in "failed to put object" and
\* hand the metadata update's NotFound on as it is; Remove, SetModTime and
\* Open hand the internal NotFound on as it is.
C9_NotFoundMapping ==
    (\E i \in 1..Len(last.calls) : last.calls[i].err = errNotFound) =>
        /\ last.op \in DirOps => last.err = ErrorDirNotFound
        /\ last.op = "NewObject" => last.err = ErrorObjectNotFound
        /\ last.op = "Move" => last.err = ErrorCantMove
        /\ last.op \in {"Put", "Update"} =>
               IF last.calls[1].err = errNotFound
               THEN last.err = Wrap("failed to put object", errNotFound)
               ELSE last.err = errNotFound
        /\ last.op \in {"Remove", "SetModTime", "Open"} => last.err = errNotFound

\* C9 witness: List ran on a path that is not there.
C9_Witness ==
    /\ last.op = "List"
    /\ last.calls[1].err = errNotFound
    /\ last.err = ErrorDirNotFound

\* C10: About returns Used as reported, Total as the storage limit with the
\* unlimited sentinel replaced by the ceiling, and Free = Total - Used, which
\* is not negative when Used does not exceed Total.
C10_AboutUsage ==
    quota.asked /\ quota.failAt = 0 =>
        LET total == IF quota.space = -1 THEN PetaByte ELSE quota.space
        IN /\ quota.usage.err = nil
           /\ quota.usage.Used = quota.used
           /\ quota.usage.Total = total
           /\ quota.usage.Free = total - quota.used
           /\ quota.used <= total => quota.usage.Free >= 0

====
